---- MODULE Spec2Model ----
(***************************************************************************)
(* avl::Set<ValueType> (src/avl.h): an AVL tree with parent references and *)
(* cached height / subtree size.  Nodes live in a heap addressed by small  *)
(* integers; 0 is nullptr.  ValueType is modelled by the integers 1..MaxKey*)
(* with the natural order as operator<.                                    *)
(***************************************************************************)
EXTENDS Integers, Sequences, FiniteSets

MaxKey == 4          \* keys are 1..MaxKey
MaxNodes == 4        \* a container uses at most MaxNodes addresses
MaxAfterCopy == 2    \* calls followed after the first copy (SpecCopy)
MaxLen == 4          \* a constructor's input has at most MaxLen elements (SpecBuild)

Keys == 1..MaxKey
\* Room for a source, the temporary of a copy and its target, and for
\* addresses that only a stale reference holds.
Addrs == 1..(3 * MaxNodes + 2)

NULL == 0
\* Outcomes of a cursor step that is not a position:
HANG == -1           \* the loop of the step never exits
UB == -2             \* the step dereferences a freed node (undefined behaviour)

\* SetA is the only container of Spec and SpecIter; SpecCopy adds SetB.
SetA == 1
SetB == 2
Sets == {SetA, SetB}

VARIABLES
    heap,       \* heap[n]: the Node object at address n
    live,       \* addresses between new and delete
    root,       \* root[s]: the member `root` of container s
    built,      \* built[s]: container s is constructed and not destroyed
    it,         \* the iterator the caller holds, and how it was obtained
    net,        \* net[s]: insert calls on s whose key was absent, minus erase
                \* calls on s whose key was present
    last,       \* what the last call did, if it was an insert or an erase
    mset,       \* mset[s]: the mathematical set container s is meant to hold
    pc,         \* "ready", "hang" once a call has entered a loop it never leaves,
                \* or "crash" once the program was aborted
    after,      \* calls made since the first copy
    input       \* the elements handed to the last constructor call

vars == <<heap, live, root, built, it, net, last, mset, pc, after, input>>

\* struct Node; Node(ValueType key) sets L = R = P = nullptr, height = size = 1.
NewNode(key) == [key |-> key, L |-> NULL, R |-> NULL, P |-> NULL, height |-> 1, size |-> 1]

\* The contents of memory that holds no Node (never read by a defined execution).
Blank == [key |-> 0, L |-> NULL, R |-> NULL, P |-> NULL, height |-> 0, size |-> 0]

\* class iterator: cur and root; origin, arg and steps record the call that
\* returned it and the number of ++ or -- applied since.
Iter(s, origin, arg, cur, r) ==
    [set |-> s, origin |-> origin, arg |-> arg, cur |-> cur, root |-> r, steps |-> 0]

NoIter == Iter(0, "none", 0, NULL, NULL)

\* What a call did: the branch taken at the key, the number of rotations, and
\* the numbers of nodes allocated and deleted.
NoCall == [op |-> "none", kase |-> "none", rots |-> 0, made |-> 0, freed |-> 0]

Max(a, b) == IF a >= b THEN a ELSE b

get_height(h, N) == IF N # NULL THEN h[N].height ELSE 0

get_size(h, N) == IF N # NULL THEN h[N].size ELSE 0

\* `c->P = N` for a child c that exists (lines 48-53).
\* Mutant of SetParent: the child's parent reference is cleared.
SetParent_Clear(h, c, N) == IF c # NULL THEN [h EXCEPT ![c].P = NULL] ELSE h

SetParent(h, c, N) == IF c # NULL THEN [h EXCEPT ![c].P = N] ELSE h

recalc_par(h, N) ==
    IF N = NULL THEN h
    ELSE SetParent(SetParent(h, h[N].L, N), h[N].R, N)

\* Mutant of recalc_node: the subtree size is not recomputed.
recalc_node_NoSize(h, N) ==
    IF N = NULL THEN h
    ELSE recalc_par([h EXCEPT
                        ![N].height = Max(get_height(h, h[N].L), get_height(h, h[N].R)) + 1], N)

recalc_node(h, N) ==
    IF N = NULL THEN h
    ELSE recalc_par([h EXCEPT
                        ![N].height = Max(get_height(h, h[N].L), get_height(h, h[N].R)) + 1,
                        ![N].size = get_size(h, h[N].L) + get_size(h, h[N].R) + 1], N)

\* A call result: the heap after the call, the returned Node*, the number of
\* rotations made, the addresses allocated and deleted, and the branch taken
\* where the key was found or found missing.
Res(h, n, rots, made, freed, kase) ==
    [h |-> h, n |-> n, rots |-> rots, made |-> made, freed |-> freed, kase |-> kase]

\* Lines 60-63 with C = N->R: C->L = N; N->R = T; C->P = N->P.
LeftRelink(h, N, C) == [h EXCEPT ![C].L = N, ![N].R = h[C].L, ![C].P = h[N].P]

\* Mutant of left_rotate: the new top is recomputed before the node under it.
left_rotate_TopFirst(h, N) ==
    [h |-> recalc_node(recalc_node(LeftRelink(h, N, h[N].R), h[N].R), N), n |-> h[N].R]

left_rotate(h, N) ==
    [h |-> recalc_node(recalc_node(LeftRelink(h, N, h[N].R), N), h[N].R), n |-> h[N].R]

\* Lines 75-78 with C = N->L: C->R = N; N->L = T; C->P = N->P.
RightRelink(h, N, C) == [h EXCEPT ![C].R = N, ![N].L = h[C].R, ![C].P = h[N].P]

right_rotate(h, N) ==
    [h |-> recalc_node(recalc_node(RightRelink(h, N, h[N].L), N), h[N].L), n |-> h[N].L]

get_balance(h, N) == get_height(h, h[N].L) - get_height(h, h[N].R)

\* `N->L = <call>` and `N->R = <call>` for a call that returned r.
AssignL(r, N) == [r.h EXCEPT ![N].L = r.n]

AssignR(r, N) == [r.h EXCEPT ![N].R = r.n]

\* `return <rotation>` after `rots` rotations in all.
Rotated(r, rots) == [h |-> r.h, n |-> r.n, rots |-> rots]

\* Mutant of InsertBalance: a single rotation at a balance of 1 or -1 already.
InsertBalance_Eager(h, N, key, rots) ==
    IF get_balance(h, N) >= 1 THEN Rotated(right_rotate(h, N), rots + 1)
    ELSE IF get_balance(h, N) <= -1 THEN Rotated(left_rotate(h, N), rots + 1)
    ELSE [h |-> h, n |-> N, rots |-> rots]

\* Lines 107-125 of _insert: the LL / LR / RL / RR cases, chosen by the key.
InsertBalance(h, N, key, rots) ==
    IF get_balance(h, N) > 1 THEN
        IF key < h[h[N].L].key
        THEN Rotated(right_rotate(h, N), rots + 1)
        ELSE Rotated(right_rotate(AssignL(left_rotate(h, h[N].L), N), N), rots + 2)
    ELSE IF get_balance(h, N) < -1 THEN
        IF key < h[h[N].R].key
        THEN Rotated(left_rotate(AssignR(right_rotate(h, h[N].R), N), N), rots + 2)
        ELSE Rotated(left_rotate(h, N), rots + 1)
    ELSE [h |-> h, n |-> N, rots |-> rots]

\* Lines 105-125 of _insert.
InsertRebalance(h, N, key, rots) == InsertBalance(recalc_node(h, N), N, key, rots)

\* The result b of the rebalancing, with the allocations and deletions of the
\* recursive call s.
Unwound(b, s) == Res(b.h, b.n, b.rots, s.made, s.freed, s.kase)

\* Line 98 and lines 105-125, for the recursive call's result s.
InsertLeft(s, N, key) == Unwound(InsertRebalance(AssignL(s, N), N, key, s.rots), s)

\* Line 100 and lines 105-125.
InsertRight(s, N, key) == Unwound(InsertRebalance(AssignR(s, N), N, key, s.rots), s)

\* Lines 93-95: `return new Node(key)`.
InsertNew(h, key, fresh) ==
    Res([h EXCEPT ![fresh] = NewNode(key)], fresh, 0, {fresh}, {}, "new")

\* Mutant of InsertFound: the node found is overwritten by a new Node(key).
InsertFound_Reset(h, N) == Res([h EXCEPT ![N] = NewNode(h[N].key)], N, 0, {}, {}, "dup")

\* Lines 101-103: the key is there, `return N`.
InsertFound(h, N) == Res(h, N, 0, {}, {}, "dup")

\* _insert(N, key); `fresh` is the address operator new returns if it is called.
RECURSIVE _insert(_, _, _, _)
_insert(h, N, key, fresh) ==
    IF N = NULL THEN InsertNew(h, key, fresh)
    ELSE IF key < h[N].key THEN InsertLeft(_insert(h, h[N].L, key, fresh), N, key)
    ELSE IF h[N].key < key THEN InsertRight(_insert(h, h[N].R, key, fresh), N, key)
    ELSE InsertFound(h, N)

\* 1 if the unwinding step at a node, which turned the recursive call's result
\* s into u, took one of the rotating branches of lines 109-123, else 0.
Triggered(s, u) == IF u.rots > s.rots THEN 1 ELSE 0

\* The number of nodes on the path of _insert(N, key) at which the unwinding
\* takes a rotating branch.
RECURSIVE InsertEvents(_, _, _, _)
InsertEvents(h, N, key, fresh) ==
    IF N = NULL THEN 0
    ELSE IF key < h[N].key
    THEN InsertEvents(h, h[N].L, key, fresh)
         + Triggered(_insert(h, h[N].L, key, fresh), _insert(h, N, key, fresh))
    ELSE IF h[N].key < key
    THEN InsertEvents(h, h[N].R, key, fresh)
         + Triggered(_insert(h, h[N].R, key, fresh), _insert(h, N, key, fresh))
    ELSE 0

RECURSIVE get_left(_, _)
get_left(h, N) ==
    IF N = NULL THEN NULL
    ELSE IF h[N].L = NULL THEN N
    ELSE get_left(h, h[N].L)

RECURSIVE get_right(_, _)
get_right(h, N) ==
    IF N = NULL THEN NULL
    ELSE IF h[N].R = NULL THEN N
    ELSE get_right(h, h[N].R)

\* Mutant of EraseBalance: no rotation after an erase.
EraseBalance_NoRotation(h, N, rots) == [h |-> h, n |-> N, rots |-> rots]

\* Mutant of EraseBalance: rotates at a balance of 1 or -1 already.
EraseBalance_Eager(h, N, rots) ==
    IF get_balance(h, N) >= 1 THEN Rotated(right_rotate(h, N), rots + 1)
    ELSE IF get_balance(h, N) <= -1 THEN Rotated(left_rotate(h, N), rots + 1)
    ELSE [h |-> h, n |-> N, rots |-> rots]

\* Lines 206-224 of _erase: the rotation is chosen by the child's balance.
EraseBalance(h, N, rots) ==
    IF get_balance(h, N) > 1 THEN
        IF get_balance(h, h[N].L) >= 0
        THEN Rotated(right_rotate(h, N), rots + 1)
        ELSE Rotated(right_rotate(AssignL(left_rotate(h, h[N].L), N), N), rots + 2)
    ELSE IF get_balance(h, N) < -1 THEN
        IF get_balance(h, h[N].R) <= 0
        THEN Rotated(left_rotate(h, N), rots + 1)
        ELSE Rotated(left_rotate(AssignR(right_rotate(h, h[N].R), N), N), rots + 2)
    ELSE [h |-> h, n |-> N, rots |-> rots]

\* Lines 204-224 of _erase.
EraseRebalance(h, N, rots) == EraseBalance(recalc_node(h, N), N, rots)

\* Lines 185-193 with T the only child, or NULL.  `*N = *T` copies every
\* member of the child, its parent reference included; then the child is
\* deleted.  Without a child the node itself is deleted and N becomes nullptr.
\* Mutant of EraseReplace: a node without children is deleted and still returned.
EraseReplace_KeepLeaf(h, N, T) ==
    IF T = NULL THEN Res([h EXCEPT ![N] = Blank], N, 0, {}, {N}, "leaf")
    ELSE Res([h EXCEPT ![N] = h[T], ![T] = Blank], N, 0, {}, {T}, "one")

\* Mutant of EraseReplace: the only child is copied into N and never deleted.
EraseReplace_Leak(h, N, T) ==
    IF T = NULL THEN Res([h EXCEPT ![N] = Blank], NULL, 0, {}, {N}, "leaf")
    ELSE Res([h EXCEPT ![N] = h[T]], N, 0, {}, {}, "one")

EraseReplace(h, N, T) ==
    IF T = NULL THEN Res([h EXCEPT ![N] = Blank], NULL, 0, {}, {N}, "leaf")
    ELSE Res([h EXCEPT ![N] = h[T], ![T] = Blank], N, 0, {}, {T}, "one")

\* Lines 184-193: the node has at most one child.
EraseOneChild(h, N) == EraseReplace(h, N, IF h[N].L # NULL THEN h[N].L ELSE h[N].R)

\* The result s of a recursive _erase, stored by `N->L = ` or `N->R = `.
EraseLeft(s, N) == Res(AssignL(s, N), N, s.rots, {}, s.freed, s.kase)

EraseRight(s, N) == Res(AssignR(s, N), N, s.rots, {}, s.freed, s.kase)

\* Lines 177-178: the subtree is empty, `return nullptr`.
EraseAbsent(h) == Res(h, NULL, 0, {}, {}, "absent")

\* Lines 201-224 for the result e of lines 179-199.
EraseUnwind(e) ==
    IF e.n = NULL THEN e ELSE Unwound(EraseRebalance(e.h, e.n, e.rots), e)

\* _erase(N, key).  In the two-children case (lines 195-197, T the leftmost
\* node of the right subtree) the recursive call receives a reference to T->key;
\* no comparison reads it after T is overwritten or deleted, so the key is
\* passed by value here.
RECURSIVE _erase(_, _, _)
\* Mutant of EraseTwoChildren: the successor's key is copied, the successor stays.
EraseTwoChildren_KeepSuccessor(h, N, T) ==
    Res([h EXCEPT ![N].key = h[T].key], N, 0, {}, {}, "two")

\* Mutant of EraseTwoChildren: the successor is erased, its key is not copied.
EraseTwoChildren_LoseKey(h, N, T) ==
    [EraseRight(_erase(h, h[N].R, h[T].key), N) EXCEPT !.kase = "two"]

EraseTwoChildren(h, N, T) ==
    [EraseRight(_erase([h EXCEPT ![N].key = h[T].key], h[N].R, h[T].key), N)
        EXCEPT !.kase = "two"]

_erase(h, N, key) ==
    IF N = NULL THEN EraseAbsent(h)
    ELSE IF key < h[N].key THEN EraseUnwind(EraseLeft(_erase(h, h[N].L, key), N))
    ELSE IF h[N].key < key THEN EraseUnwind(EraseRight(_erase(h, h[N].R, key), N))
    ELSE IF h[N].L = NULL \/ h[N].R = NULL THEN EraseUnwind(EraseOneChild(h, N))
    ELSE EraseUnwind(EraseTwoChildren(h, N, get_left(h, h[N].R)))

RECURSIVE _find(_, _, _)
_find(h, N, key) ==
    IF N = NULL THEN NULL
    ELSE IF key < h[N].key THEN _find(h, h[N].L, key)
    ELSE IF h[N].key < key THEN _find(h, h[N].R, key)
    ELSE N

\* Mutant of OrElse: the node that is greater than the key is forgotten.
OrElse_Drop(res, N) == res

\* Lines 246-249: `if (!res) res = N`.
OrElse(res, N) == IF res = NULL THEN N ELSE res

RECURSIVE _lower_bound(_, _, _)
_lower_bound(h, N, key) ==
    IF N = NULL THEN NULL
    ELSE IF ~(key < h[N].key) /\ ~(h[N].key < key) THEN N
    ELSE IF key < h[N].key THEN OrElse(_lower_bound(h, h[N].L, key), N)
    ELSE _lower_bound(h, h[N].R, key)

\* The upward walk of get_next (lines 153-159).  A walk that has made more
\* steps than there are live nodes is at a node it has been at before and
\* never leaves the loop; reading through a reference to a deleted node is
\* undefined.
RECURSIVE NextUp(_, _, _, _)
NextUp(h, lv, N, fuel) ==
    IF h[N].P = NULL THEN NULL
    ELSE IF h[N].P \notin lv THEN UB
    ELSE IF h[h[N].P].L = N THEN h[N].P
    ELSE IF fuel = 0 THEN HANG
    ELSE NextUp(h, lv, h[N].P, fuel - 1)

get_next(h, lv, N) ==
    IF N = NULL THEN NULL
    ELSE IF N \notin lv THEN UB
    ELSE IF h[N].R # NULL THEN get_left(h, h[N].R)
    ELSE NextUp(h, lv, N, Cardinality(lv))

\* Mutant of PrevUp: the walk looks for a left-child edge, as get_next does.
PrevUp_LeftEdge(h, lv, N, fuel) == NextUp(h, lv, N, fuel)

\* The upward walk of get_prev (lines 167-173).
RECURSIVE PrevUp(_, _, _, _)
PrevUp(h, lv, N, fuel) ==
    IF h[N].P = NULL THEN NULL
    ELSE IF h[N].P \notin lv THEN UB
    ELSE IF h[h[N].P].R = N THEN h[N].P
    ELSE IF fuel = 0 THEN HANG
    ELSE PrevUp(h, lv, h[N].P, fuel - 1)

get_prev(h, lv, N) ==
    IF N = NULL THEN NULL
    ELSE IF N \notin lv THEN UB
    ELSE IF h[N].L # NULL THEN get_right(h, h[N].L)
    ELSE PrevUp(h, lv, N, Cardinality(lv))

\* iterator::operator++ and operator--: the new value of cur.
IterInc(h, lv, i) == get_next(h, lv, i.cur)

IterDec(h, lv, i) ==
    IF i.cur = NULL THEN get_right(h, i.root) ELSE get_prev(h, lv, i.cur)

\* iterator::operator==, lines 303-305: the positions are compared, the roots
\* are not.
IterEq(a, b) == a.cur = b.cur

\* size() and empty()
size(h, r) == get_size(h, r)

empty(r) == r = NULL

\* The nodes of the tree under N, by its child links.
RECURSIVE Subtree(_, _)
Subtree(h, N) ==
    IF N = NULL THEN {} ELSE {N} \cup Subtree(h, h[N].L) \cup Subtree(h, h[N].R)

\* destroy(N): deletes every node under N.
destroy(h, N) == [n \in Addrs |-> IF n \in Subtree(h, N) THEN Blank ELSE h[n]]

\* The addresses some live node's parent reference holds.
Referenced(h, lv) == {h[m].P : m \in lv} \ {NULL}

\* The address operator new returns.  The tree code never compares addresses
\* for order, so which free address is taken does not matter; an address that
\* a stale parent reference still holds is not handed out again, so that a
\* read through a stale reference stays recognisable as undefined.
FreeAddrs(h, lv) == Addrs \ (lv \cup Referenced(h, lv))

Fresh(h, lv) == CHOOSE n \in FreeAddrs(h, lv) : \A m \in FreeAddrs(h, lv) : n <= m

\* The value a step yields: what the code computes, or, where it reads a
\* deleted node, the value c the build happens to produce.
Resolve(o, c) == IF o = UB THEN c ELSE o

\* What a read of a deleted node can make of a cursor; nothing is read from a
\* deleted node while no parent reference is stale.
Wild(h, lv) == IF Referenced(h, lv) \subseteq lv THEN {NULL} ELSE lv \cup {NULL, HANG}

\* The state of a container under construction or assignment: the heap, the
\* live addresses, its root, and "ok" or "hang".
Building(h, lv, r, status) == [h |-> h, lv |-> lv, root |-> r, status |-> status]

\* `root = _insert(root, *start)` (lines 326 and 351) with the call's result r.
Stored(st, r) == Building(r.h, st.lv \cup r.made, r.n, st.status)

CopyInsert(st, key) == Stored(st, _insert(st.h, st.root, key, Fresh(st.h, st.lv)))

\* The loops of lines 325-328 and 350-353: while (start != end) { insert *start;
\* ++start }.  cur is start's position in the source.  A loop that has made
\* more steps than there are nodes is at a position it has been at before, with
\* every key of the cycle already inserted: it never ends.
RECURSIVE CopyLoop(_, _, _, _)
CopyAdvance(st, cur, c, fuel) ==
    CopyLoop(st, Resolve(get_next(st.h, st.lv, cur), c), c, fuel - 1)

CopyLoop(st, cur, c, fuel) ==
    IF cur = NULL THEN st
    ELSE IF cur = HANG \/ fuel = 0 THEN [st EXCEPT !.status = "hang"]
    ELSE CopyAdvance(CopyInsert(st, st.h[cur].key), cur, c, fuel)

\* Set(Iter start, Iter end) over the elements of the container rooted at src
\* (lines 322-332); operator< on the keys does not throw.
RangeConstruct(h, lv, src, c) ==
    CopyLoop(Building(h, lv, NULL, "ok"), get_left(h, src), c, Cardinality(lv) + 1)

\* Set& operator=(const Set &other), lines 342-356, for the container rooted
\* at r and the other rooted at src.
OperatorAssign(h, lv, r, src, c) ==
    IF r = src THEN Building(h, lv, r, "ok")
    ELSE CopyLoop(Building(destroy(h, r), lv \ Subtree(h, r), NULL, "ok"),
                  get_left(h, src), c, Cardinality(lv) + 1)

\* ~Set() of the temporary rooted at tmp, once the assignment st has returned.
DestroyTemp(st, tmp) ==
    IF st.status # "ok" THEN st
    ELSE Building(destroy(st.h, tmp), st.lv \ Subtree(st.h, tmp), st.root, "ok")

\* `*this = <temporary>` and the temporary's destruction (lines 335 and 339).
AssignTemp(tmp, r, c) ==
    IF tmp.status # "ok" THEN tmp
    ELSE DestroyTemp(OperatorAssign(tmp.h, tmp.lv, r, tmp.root, c), tmp.root)

\* Set(const Set &other), lines 338-340: root(nullptr), then
\* *this = Set(other.begin(), other.end()).
CopyConstructor(h, lv, src, c) == AssignTemp(RangeConstruct(h, lv, src, c), NULL, c)

\* The inputs of Set(Iter, Iter) and Set(std::initializer_list): finite
\* sequences of keys, in any order, with or without repeats.
Inputs == UNION {[1..n -> Keys] : n \in 0..MaxLen}

Range(q) == {q[i] : i \in 1..Len(q)}

\* The loop of lines 325-328 over the elements q[i], ..., q[k] of an input.
RECURSIVE InputLoop(_, _, _, _)
\* Mutant of InputLoop: `start` is advanced twice per round.
InputLoop_Stride(st, q, i, k) ==
    IF i > k THEN st ELSE InputLoop(CopyInsert(st, q[i]), q, i + 2, k)

InputLoop(st, q, i, k) ==
    IF i > k THEN st ELSE InputLoop(CopyInsert(st, q[i]), q, i + 1, k)

\* The try block of Set(Iter, Iter) (lines 323-328) once k elements of q have
\* been inserted: all of q, or the elements before the one whose copy or
\* comparison throws.  A throwing _insert has changed nothing: the comparisons
\* and `new Node(key)` come before every assignment.
RangeInput(h, lv, q, k) == InputLoop(Building(h, lv, NULL, "ok"), q, 1, k)

\* catch (...) { destroy(root); } (lines 329-331): the nodes are deleted, root
\* keeps its value, and nothing is thrown again.
Caught(st) ==
    Building(destroy(st.h, st.root), st.lv \ Subtree(st.h, st.root), st.root, "ok")

\* Set(std::initializer_list), lines 334-336: *this = Set(elems.begin(), elems.end()).
ListInput(h, lv, q, c) == AssignTemp(RangeInput(h, lv, q, Len(q)), NULL, c)

\* The same when the temporary st caught a failure.  With no node built the
\* temporary's root is nullptr and operator= returns at line 344.  Otherwise
\* operator= walks the temporary's deleted nodes and ~Set deletes them again,
\* which is undefined: the program is aborted, or the deleted nodes still read
\* as they were and the calls go through.
ListCaught(st, c, o) ==
    IF st.root = NULL THEN st
    ELSE IF o = "crash" THEN [Caught(st) EXCEPT !.status = "crash"]
    ELSE AssignTemp(st, NULL, c)

\* `delete` reaches a node that is deleted already.
Dangling(lv, r) == r # NULL /\ r \notin lv

----------------------------------------------------------------------------
Init ==
    /\ heap = [n \in Addrs |-> Blank]
    /\ live = {}
    /\ root = [s \in Sets |-> NULL]
    /\ built = [s \in Sets |-> s = SetA]
    /\ it = NoIter
    /\ net = [s \in Sets |-> 0]
    /\ last = NoCall
    /\ mset = [s \in Sets |-> {}]
    /\ pc = "ready"
    /\ after = 0
    /\ input = <<>>

\* `root = <call>` for a call `op` that returned r, and its effect on the memory.
Mutated(s, op, r) ==
    /\ heap' = r.h
    /\ live' = (live \cup r.made) \ r.freed
    /\ root' = [root EXCEPT ![s] = r.n]
    /\ last' = [op |-> op, kase |-> r.kase, rots |-> r.rots,
                made |-> Cardinality(r.made), freed |-> Cardinality(r.freed)]

\* The addresses container s uses: its nodes and what their parent references hold.
InUse(s) == Subtree(heap, root[s]) \cup Referenced(heap, Subtree(heap, root[s]))

\* Calls are counted once a copy has been made, and followed up to MaxAfterCopy.
Counted ==
    /\ after <= MaxAfterCopy
    /\ after' = IF after > 0 THEN after + 1 ELSE 0

\* void insert(const ValueType&): root = _insert(root, val).  Every iterator
\* the caller holds is dropped (the caller's obligation after a mutation).
Insert(s, x) ==
    /\ pc = "ready"
    /\ built[s]
    /\ Cardinality(InUse(s)) < MaxNodes
    /\ Mutated(s, "insert", _insert(heap, root[s], x, Fresh(heap, live)))
    /\ net' = [net EXCEPT ![s] = IF x \notin mset[s] THEN @ + 1 ELSE @]
    /\ mset' = [mset EXCEPT ![s] = @ \cup {x}]
    /\ it' = NoIter
    /\ Counted
    /\ UNCHANGED <<built, pc, input>>

\* void erase(const ValueType&): root = _erase(root, val).
Erase(s, x) ==
    /\ pc = "ready"
    /\ built[s]
    /\ Mutated(s, "erase", _erase(heap, root[s], x))
    /\ net' = [net EXCEPT ![s] = IF x \in mset[s] THEN @ - 1 ELSE @]
    /\ mset' = [mset EXCEPT ![s] = @ \ {x}]
    /\ it' = NoIter
    /\ Counted
    /\ UNCHANGED <<built, pc, input>>

\* A const member function changes nothing of the container.
Query ==
    /\ last' = NoCall
    /\ UNCHANGED <<heap, live, root, built, net, mset, after, input>>

\* iterator begin() const
Begin(s) ==
    /\ pc = "ready"
    /\ built[s]
    /\ it' = Iter(s, "begin", 0, get_left(heap, root[s]), root[s])
    /\ Query
    /\ UNCHANGED pc

\* iterator end() const
End(s) ==
    /\ pc = "ready"
    /\ built[s]
    /\ it' = Iter(s, "end", 0, NULL, root[s])
    /\ Query
    /\ UNCHANGED pc

\* iterator find(const ValueType&) const
Find(s, x) ==
    /\ pc = "ready"
    /\ built[s]
    /\ it' = Iter(s, "find", x, _find(heap, root[s], x), root[s])
    /\ Query
    /\ UNCHANGED pc

\* iterator lower_bound(const ValueType&) const
LowerBound(s, x) ==
    /\ pc = "ready"
    /\ built[s]
    /\ it' = Iter(s, "lower_bound", x, _lower_bound(heap, root[s], x), root[s])
    /\ Query
    /\ UNCHANGED pc

\* The iterator after a step that yields c; a step that never returns leaves
\* the program in it.
Stepped(c) ==
    /\ it' = [it EXCEPT !.cur = c, !.steps = @ + 1]
    /\ pc' = IF c = HANG THEN "hang" ELSE "ready"

\* ++it in a traversal that started at begin(), on a position that is not end
\* (advancing past end is the caller's fault).  A traversal is followed for one
\* step more than the container has elements.
Inc ==
    /\ pc = "ready"
    /\ it.origin = "begin"
    /\ it.cur # NULL
    /\ it.steps <= size(heap, it.root)
    /\ \E c \in Wild(heap, live) : Stepped(Resolve(IterInc(heap, live, it), c))
    /\ Query

\* --it in a traversal that started at end(), at most once past begin().
Dec ==
    /\ pc = "ready"
    /\ it.origin = "end"
    /\ it.steps <= size(heap, it.root)
    /\ \E c \in Wild(heap, live) : Stepped(Resolve(IterDec(heap, live, it), c))
    /\ Query

\* The container s after a copy into it that left st, or the program stuck in
\* the copy.
Copied(s, t, st) ==
    /\ heap' = st.h
    /\ live' = st.lv
    /\ pc' = IF st.status = "ok" THEN "ready" ELSE "hang"
    /\ root' = [root EXCEPT ![s] = IF st.status = "ok" THEN st.root ELSE @]
    /\ built' = [built EXCEPT ![s] = st.status = "ok"]
    /\ mset' = [mset EXCEPT ![s] = mset[t]]
    /\ net' = [net EXCEPT ![s] = Cardinality(mset[t])]
    /\ last' = NoCall
    /\ it' = NoIter
    /\ after <= MaxAfterCopy
    /\ after' = after + 1
    /\ UNCHANGED input

\* Set s(t): copy construction of s from t.
CopyConstruct(s, t) ==
    /\ pc = "ready"
    /\ ~built[s]
    /\ built[t]
    /\ \E c \in Wild(heap, live) : Copied(s, t, CopyConstructor(heap, live, root[t], c))

\* s = t: copy assignment, self-assignment included.
Assign(s, t) ==
    /\ pc = "ready"
    /\ built[s]
    /\ built[t]
    /\ \E c \in Wild(heap, live) : Copied(s, t, OperatorAssign(heap, live, root[s], root[t], c))

\* ~Set(), lines 390-393.
Destructor(s) ==
    /\ pc = "ready"
    /\ built[s]
    /\ heap' = destroy(heap, root[s])
    /\ live' = live \ Subtree(heap, root[s])
    /\ root' = [root EXCEPT ![s] = NULL]
    /\ built' = [built EXCEPT ![s] = FALSE]
    /\ mset' = [mset EXCEPT ![s] = {}]
    /\ net' = [net EXCEPT ![s] = 0]
    /\ last' = [op |-> "destroy",
                kase |-> IF Dangling(live, root[s]) THEN "double" ELSE "all",
                rots |-> 0, made |-> 0,
                freed |-> Cardinality(Subtree(heap, root[s]))]
    /\ pc' \in IF Dangling(live, root[s]) THEN {"ready", "crash"} ELSE {"ready"}
    /\ it' = NoIter
    /\ input' = <<>>
    /\ Counted

\* The container s after a constructor call on the input q that left st, with
\* `meant` the set the caller is to find in it.
Constructed(s, q, st, kase, meant) ==
    /\ heap' = st.h
    /\ live' = st.lv
    /\ pc' = IF st.status = "ok" THEN "ready" ELSE st.status
    /\ root' = [root EXCEPT ![s] = st.root]
    /\ built' = [built EXCEPT ![s] = st.status = "ok"]
    /\ mset' = [mset EXCEPT ![s] = meant]
    /\ net' = [net EXCEPT ![s] = Cardinality(meant)]
    /\ last' = [op |-> "construct", kase |-> kase, rots |-> 0,
                made |-> Cardinality(st.lv \ live), freed |-> 0]
    /\ it' = NoIter
    /\ input' = q
    /\ UNCHANGED after

\* A constructor call can start: s is not constructed, and the input's distinct
\* keys fit a container.  One construction is followed, and the destruction of
\* its result: after a destructor the memory is as it was at the start.
Constructible(s, q) ==
    /\ pc = "ready"
    /\ ~built[s]
    /\ last.op # "destroy"
    /\ Cardinality(Range(q)) <= MaxNodes

\* Set s(first, last) over the input q, no element failing.
RangeBuild(s, q) ==
    /\ Constructible(s, q)
    /\ Constructed(s, q, RangeInput(heap, live, q, Len(q)), "range", Range(q))

\* Set s{q[1], ..., q[n]}.
ListBuild(s, q) ==
    /\ Constructible(s, q)
    /\ \E c \in Wild(heap, live) :
          Constructed(s, q, ListInput(heap, live, q, c), "list", Range(q))

\* Set s(first, last) where the copy or a comparison of element k + 1 throws:
\* the catch block runs and the constructor returns.
RangeBuildFail(s, q, k) ==
    /\ Constructible(s, q)
    /\ Constructed(s, q, Caught(RangeInput(heap, live, q, k)), "caught", {})

\* Set s{...} where the copy or a comparison of element k + 1 throws.
ListBuildFail(s, q, k, o) ==
    /\ Constructible(s, q)
    /\ \E c \in Wild(heap, live) :
          Constructed(s, q, ListCaught(RangeInput(heap, live, q, k), c, o),
                      "caught", {})

Next ==
    \/ \E x \in Keys : Insert(SetA, x)
    \/ \E x \in Keys : Erase(SetA, x)

Spec == Init /\ [][Next]_vars

NextIter ==
    \/ Next
    \/ \E x \in Keys : Find(SetA, x)
    \/ \E x \in Keys : LowerBound(SetA, x)
    \/ Begin(SetA)
    \/ End(SetA)
    \/ Inc
    \/ Dec

SpecIter == Init /\ [][NextIter]_vars

NextCopy ==
    \/ \E s \in Sets, x \in Keys : Insert(s, x)
    \/ \E s \in Sets, x \in Keys : Erase(s, x)
    \/ CopyConstruct(SetB, SetA)
    \/ \E s, t \in Sets : Assign(s, t)
    \/ Destructor(SetB)

SpecCopy == Init /\ [][NextCopy]_vars

\* A container over its whole life: calls, then the destructor.
NextLife ==
    \/ Next
    \/ Destructor(SetA)

SpecLife == Init /\ [][NextLife]_vars

\* Construction from a sequence or a literal list, with and without a failing
\* element, and the destruction of what was constructed.  The element that
\* fails is the last of the input: the elements after it are never read.
NextBuild ==
    \/ \E q \in Inputs : RangeBuild(SetB, q)
    \/ \E q \in Inputs : ListBuild(SetB, q)
    \/ \E q \in Inputs \ {<<>>} : RangeBuildFail(SetB, q, Len(q) - 1)
    \/ \E q \in Inputs \ {<<>>} :
          \E o \in {"crash", "stale"} : ListBuildFail(SetB, q, Len(q) - 1, o)
    \/ Destructor(SetB)

SpecBuild == Init /\ [][NextBuild]_vars

----------------------------------------------------------------------------
(* What the claims speak of: the tree as its child links show it. *)

RootA == root[SetA]

Abs(x) == IF x < 0 THEN -x ELSE x

\* The structural height of the subtree under N, 0 for an absent subtree.
RECURSIVE TrueHeight(_, _)
TrueHeight(h, N) ==
    IF N = NULL THEN 0 ELSE 1 + Max(TrueHeight(h, h[N].L), TrueHeight(h, h[N].R))

\* The keys of the subtree under N: left subtree, node, right subtree.
RECURSIVE InOrder(_, _)
InOrder(h, N) ==
    IF N = NULL THEN <<>>
    ELSE InOrder(h, h[N].L) \o <<h[N].key>> \o InOrder(h, h[N].R)

KeysOf(h, N) == {h[n].key : n \in Subtree(h, N)}

StrictlyIncreasing(q) == \A i \in 1..(Len(q) - 1) : q[i] < q[i + 1]

Least(S) == CHOOSE k \in S : \A j \in S : k <= j

\* The elements of a set of keys in ascending order.
RECURSIVE SortedSeq(_)
SortedSeq(S) == IF S = {} THEN <<>> ELSE <<Least(S)>> \o SortedSeq(S \ {Least(S)})

\* Every node of the tree under r is balanced, is ordered against its subtrees,
\* and caches its true height and size.
BalancedTree(h, r) ==
    \A n \in Subtree(h, r) : Abs(TrueHeight(h, h[n].L) - TrueHeight(h, h[n].R)) <= 1

OrderedTree(h, r) ==
    /\ StrictlyIncreasing(InOrder(h, r))
    /\ \A n \in Subtree(h, r) :
          /\ \A m \in Subtree(h, h[n].L) : h[m].key < h[n].key
          /\ \A m \in Subtree(h, h[n].R) : h[n].key < h[m].key

AugmentedTree(h, r) ==
    \A n \in Subtree(h, r) :
        /\ h[n].height = TrueHeight(h, n)
        /\ h[n].size = Cardinality(Subtree(h, n))

\* C1: after any sequence of insert and erase calls, every node of the tree has
\* subtrees whose structural heights differ by at most 1.
C1_Balanced == BalancedTree(heap, RootA)

\* An erase has just rotated in a tree that still has three nodes or more.
C1_Witness ==
    /\ last.op = "erase"
    /\ last.rots >= 1
    /\ Cardinality(Subtree(heap, RootA)) >= 3

\* C2: after any sequence of insert and erase calls, the in-order traversal by
\* child links is strictly increasing: the keys left of a node are smaller, the
\* keys right of it are greater, and no key occurs twice.
C2_Ordered == OrderedTree(heap, RootA)

\* A node with two children has just been erased from.
C2_Witness ==
    /\ last.op = "erase"
    /\ last.kase = "two"
    /\ Len(InOrder(heap, RootA)) >= 3

\* C3: the keys stored are the set that the same insert / erase calls build by
\* set-add and set-remove, and find(x) returns a position holding x when x is in
\* that set and the end position otherwise.
C3_RefinesSet ==
    /\ KeysOf(heap, RootA) = mset[SetA]
    /\ \A x \in Keys :
          IF x \in mset[SetA]
          THEN /\ _find(heap, RootA, x) \in Subtree(heap, RootA)
               /\ heap[_find(heap, RootA, x)].key = x
          ELSE _find(heap, RootA, x) = NULL

\* The key of a node with two children has just been erased; other keys stay
\* and are found, and some key is absent.
C3_Witness ==
    /\ last.op = "erase"
    /\ last.kase = "two"
    /\ Cardinality(mset[SetA]) >= 2
    /\ mset[SetA] # Keys
    /\ \E x \in Keys : _find(heap, RootA, x) # NULL

\* C4: size() is the number of nodes reachable from the root, and is the number
\* of insert calls that found their key absent minus the number of erase calls
\* that found their key present.
C4_Size ==
    /\ size(heap, RootA) = Cardinality(Subtree(heap, RootA))
    /\ size(heap, RootA) = net[SetA]

\* An erase has just removed a node, and two or more remain.
C4_Witness ==
    /\ last.op = "erase"
    /\ last.freed = 1
    /\ size(heap, RootA) >= 2

\* C5: a traversal from begin() by ++ is, after k steps, at the (k+1)-st
\* smallest key, and after size() steps at the end position; every step
\* returns.
C5_ForwardTraversal ==
    it.origin = "begin" =>
        /\ pc = "ready"
        /\ it.steps <= size(heap, RootA)
        /\ IF it.steps < size(heap, RootA)
           THEN /\ it.cur \in Subtree(heap, RootA)
                /\ it.steps + 1 <= Len(SortedSeq(KeysOf(heap, RootA)))
                /\ heap[it.cur].key = SortedSeq(KeysOf(heap, RootA))[it.steps + 1]
           ELSE it.cur = NULL

\* C6: in a non-empty container a traversal from end() by -- is, after k steps
\* (1 <= k <= size()), at the k-th greatest key, and is at begin() after exactly
\* size() steps.
C6_BackwardTraversal ==
    (it.origin = "end" /\ RootA # NULL) =>
        IF it.steps = 0 THEN it.cur = NULL
        ELSE it.steps <= size(heap, RootA) =>
                /\ pc = "ready"
                /\ it.cur \in Subtree(heap, RootA)
                /\ size(heap, RootA) = Len(SortedSeq(KeysOf(heap, RootA)))
                /\ heap[it.cur].key =
                      SortedSeq(KeysOf(heap, RootA))[size(heap, RootA) - it.steps + 1]
                /\ (it.cur = get_left(heap, RootA)) <=> (it.steps = size(heap, RootA))

\* A backward traversal of three or more elements has arrived at begin().
C6_Witness ==
    /\ it.origin = "end"
    /\ size(heap, RootA) >= 3
    /\ it.steps = size(heap, RootA)
    /\ it.cur = get_left(heap, RootA)

\* The position of the smallest stored key that is >= x, or NULL for the end
\* position when there is none.
IsLowerBound(h, r, x, pos) ==
    IF \A k \in KeysOf(h, r) : k < x
    THEN pos = NULL
    ELSE /\ pos \in Subtree(h, r)
         /\ h[pos].key = Least({k \in KeysOf(h, r) : k >= x})

\* C7: lower_bound(x) is the end position iff x is greater than every stored
\* key, and otherwise the position of the smallest stored key that is >= x.
C7_LowerBound ==
    /\ \A x \in Keys : IsLowerBound(heap, RootA, x, _lower_bound(heap, RootA, x))
    /\ it.origin = "lower_bound" => IsLowerBound(heap, RootA, it.arg, it.cur)

\* lower_bound has returned a node below the root whose key is greater than
\* the key asked for.
C7_Witness ==
    /\ it.origin = "lower_bound"
    /\ it.cur \in Subtree(heap, RootA) \ {RootA}
    /\ heap[it.cur].key > it.arg

\* C8: insert(x) of a stored key x changes nothing: the nodes, their keys,
\* links, heights and sizes, the root, size() and the ascending sequence stay,
\* no node is allocated and nothing is rotated.
C8_DuplicateInsert ==
    [][\A x \in mset[SetA] :
          Insert(SetA, x) =>
              /\ UNCHANGED <<heap, live, root, net>>
              /\ size(heap', root'[SetA]) = size(heap, RootA)
              /\ InOrder(heap', root'[SetA]) = InOrder(heap, RootA)
              /\ last'.made = 0
              /\ last'.rots = 0]_vars

\* A stored key has just been inserted again into a tree of three or more nodes.
C8_Witness ==
    /\ last.op = "insert"
    /\ last.kase = "dup"
    /\ size(heap, RootA) >= 3

\* C9: erase(x) of a key x that is not stored changes nothing: the nodes, their
\* keys, links, heights and sizes, the root, size() and the ascending sequence
\* stay, nothing is rotated and no node is freed.
C9_AbsentErase ==
    [][\A x \in Keys \ mset[SetA] :
          Erase(SetA, x) =>
              /\ UNCHANGED <<heap, live, root, net>>
              /\ size(heap', root'[SetA]) = size(heap, RootA)
              /\ InOrder(heap', root'[SetA]) = InOrder(heap, RootA)
              /\ last'.freed = 0
              /\ last'.rots = 0]_vars

\* A key that is not stored has just been erased from a tree of three or more
\* nodes.
C9_Witness ==
    /\ last.op = "erase"
    /\ last.kase = "absent"
    /\ size(heap, RootA) >= 3

\* C10: a copy construction or copy assignment returns, and every container
\* then holds exactly the keys meant for it in an ordered, balanced tree with
\* correct heights and sizes; the containers share no node, and every live node
\* belongs to one of them (what an assignment target held before is freed).
C10_Copy ==
    /\ pc = "ready"
    /\ \A s \in Sets :
          built[s] =>
              /\ KeysOf(heap, root[s]) = mset[s]
              /\ OrderedTree(heap, root[s])
              /\ BalancedTree(heap, root[s])
              /\ AugmentedTree(heap, root[s])
    /\ Subtree(heap, root[SetA]) \cap Subtree(heap, root[SetB]) = {}
    /\ live = Subtree(heap, root[SetA]) \cup Subtree(heap, root[SetB])

\* for (it = begin(); it != end(); ++it): the keys *it in turn.  A step that
\* does not return a position ends the list with HANG.
RECURSIVE Walk(_, _, _, _)
Walk(h, lv, cur, fuel) ==
    IF cur = NULL THEN <<>>
    ELSE IF cur < 0 \/ fuel = 0 THEN <<HANG>>
    ELSE <<h[cur].key>> \o Walk(h, lv, get_next(h, lv, cur), fuel - 1)

Ascending(h, lv, r) == Walk(h, lv, get_left(h, r), Cardinality(lv))

\* C11: a container constructed from a finite sequence, or from a literal list
\* of the same elements, has as its size() the number of distinct values of the
\* input, and its ascending iteration lists those values in sorted order, each
\* once.
C11_Construct ==
    (last.op = "construct" /\ last.kase \in {"range", "list"}) =>
        /\ pc = "ready"
        /\ built[SetB]
        /\ size(heap, root[SetB]) = Cardinality(Range(input))
        /\ Ascending(heap, live, root[SetB]) = SortedSeq(Range(input))

\* A container has been constructed from a literal list that is not sorted and
\* repeats a value, and holds three values or more.
C11_Witness ==
    /\ last.op = "construct"
    /\ last.kase = "list"
    /\ Len(input) > Cardinality(Range(input))
    /\ \E i \in 1..(Len(input) - 1) : input[i] > input[i + 1]
    /\ size(heap, root[SetB]) >= 3

\* C12: when an element fails while a container is built from a sequence or a
\* literal list, the failure reaches the caller and no container is returned,
\* every node built so far is deleted, and no node is deleted a second time,
\* neither by the constructor nor by a later destructor.
C12_FailedConstruction ==
    /\ pc # "crash"
    /\ (last.op = "construct" /\ last.kase = "caught") =>
          /\ ~built[SetB]
          /\ live = {}
    /\ last.op = "destroy" => last.kase # "double"

\* C13: an insert call allocates one node if its key was absent and none
\* otherwise; an erase call deletes one node, which was live, if its key was
\* present and none otherwise; the destructor deletes every node reachable from
\* the root once and clears the root, so that destroy(root) again deletes
\* nothing.  After every call the live nodes are the nodes reachable from the
\* root: no deleted node is reachable, and after the destructor no node is live.
C13_Ownership ==
    [][/\ \A x \in Keys :
             (last'.op = "insert" /\ Insert(SetA, x)) =>
                 /\ last'.made = (IF x \in mset[SetA] THEN 0 ELSE 1)
                 /\ last'.freed = 0
                 /\ live \subseteq live'
                 /\ Cardinality(live' \ live) = last'.made
       /\ \A x \in Keys :
             (last'.op = "erase" /\ Erase(SetA, x)) =>
                 /\ last'.freed = (IF x \in mset[SetA] THEN 1 ELSE 0)
                 /\ last'.made = 0
                 /\ live' \subseteq live
                 /\ Cardinality(live \ live') = last'.freed
       /\ (last'.op = "destroy" /\ Destructor(SetA)) =>
                 /\ pc' = "ready"
                 /\ last'.kase = "all"
                 /\ last'.freed = Cardinality(live)
                 /\ live' = {}
                 /\ root'[SetA] = NULL
                 /\ Subtree(heap', root'[SetA]) = {}
                 /\ destroy(heap', root'[SetA]) = heap'
       /\ live' = Subtree(heap', root'[SetA])]_vars

\* The destructor has just deleted a tree of three or more nodes.
C13_Witness ==
    /\ last.op = "destroy"
    /\ last.freed >= 3
    /\ ~built[SetA]

\* C14: in every state empty() is true iff size() = 0 iff begin() == end(),
\* and once every key that was inserted has been erased again the container is
\* empty in all three senses.
C14_Empty ==
    /\ empty(RootA) <=> size(heap, RootA) = 0
    /\ size(heap, RootA) = 0 <=>
          IterEq(Iter(SetA, "begin", 0, get_left(heap, RootA), RootA),
                 Iter(SetA, "end", 0, NULL, RootA))
    /\ mset[SetA] = {} =>
          /\ empty(RootA)
          /\ size(heap, RootA) = 0
          /\ get_left(heap, RootA) = NULL

\* The erase of the last key left has just deleted the last node.
C14_Witness ==
    /\ last.op = "erase"
    /\ last.freed = 1
    /\ mset[SetA] = {}
    /\ empty(RootA)

\* C15: after every insert or erase call, every child of a node of the tree
\* holds that node as its parent reference.
C15_ParentConsistency ==
    \A n \in Subtree(heap, RootA) :
        /\ heap[n].L # NULL => heap[heap[n].L].P = n
        /\ heap[n].R # NULL => heap[heap[n].R].P = n

\* An erase has just rotated, and the root has two children.
C15_Witness ==
    /\ last.op = "erase"
    /\ last.rots >= 1
    /\ heap[RootA].L # NULL
    /\ heap[RootA].R # NULL

\* Following parent references upward from n ends at nullptr within `fuel`
\* steps, passing live nodes only.
RECURSIVE UpwardEnds(_, _, _, _)
UpwardEnds(h, lv, n, fuel) ==
    IF n = NULL THEN TRUE
    ELSE IF n \notin lv \/ fuel = 0 THEN FALSE
    ELSE UpwardEnds(h, lv, h[n].P, fuel - 1)

\* C16: after every insert or erase call on a non-empty container the root's
\* parent reference is null, and the parent references lead from every node up
\* to the root and end there: no cycle, no self-loop.
C16_RootParent ==
    RootA # NULL =>
        /\ heap[RootA].P = NULL
        /\ \A n \in Subtree(heap, RootA) : UpwardEnds(heap, live, n, Cardinality(live))

\* C17: after every insert or erase call, every node caches as its height 1 +
\* the greater of its children's heights and as its size 1 + its children's
\* sizes, with 0 for an absent child; so the cached values are the structural
\* height and the number of nodes of the subtree.
C17_Augmentation ==
    /\ \A n \in Subtree(heap, RootA) :
          /\ heap[n].height =
                1 + Max(get_height(heap, heap[n].L), get_height(heap, heap[n].R))
          /\ heap[n].size = 1 + get_size(heap, heap[n].L) + get_size(heap, heap[n].R)
    /\ AugmentedTree(heap, RootA)

\* An erase has just replaced a node by its only child and then rotated above
\* it, or has rotated twice.
C17_Witness ==
    /\ last.op = "erase"
    /\ \/ last.kase = "one" /\ last.rots >= 1
       \/ last.rots = 2
    /\ size(heap, RootA) >= 3

====
